---- MODULE Spec2Model ----
(***************************************************************************)
(* The verification-code lifecycle of backend/apps/users: the three record *)
(* types of models.py (EmailVerificationOTP, PasswordResetOTP,             *)
(* PasswordResetToken), the issuance and confirmation handlers of          *)
(* api/serializers.py and api/views.py, run as concurrent requests         *)
(* against one shared record store.                                        *)
(*                                                                         *)
(* Store semantics.  Every request except the login view runs inside one   *)
(* database transaction (views.py:104-107 opts the login view out of the   *)
(* "automatic transaction wrapping").  The store is modelled as READ       *)
(* COMMITTED with row-level write locks: a statement reads the committed   *)
(* rows plus the request's own pending writes, a write to a row waits      *)
(* while another open transaction holds a write on that row, and all of a  *)
(* request's writes become visible together at Commit or are dropped       *)
(* together at Rollback.                                                   *)
(***************************************************************************)
EXTENDS Integers, Sequences, FiniteSets, TLC

\* ------------------------------------------------------------- bounds
\* Rows ever inserted, over the three collections together.
MaxRecords == 2
\* Clock ticks; one tick is TickMinutes.
MaxTicks == 2
MaxResends == 4
\* Project rows stored at one time.
MaxProjects == 2

\* ---------------------------------------------------- program constants
OTP_TTL_MINUTES == 15
TOKEN_TTL_MINUTES == 60
CODE_LENGTH == 6
\* ResendOTPThrottle.rate = "3/hour"
THROTTLE_RATE == 3
THROTTLE_WINDOW_MINUTES == 60

\* The clock is read at this granularity.
TickMinutes == 2 * OTP_TTL_MINUTES

Procs == {"p1", "p2"}
Users == {"u1", "u2"}
NoUser == "nobody"

EV == "EmailVerificationOTP"
PRO == "PasswordResetOTP"
PRT == "PasswordResetToken"
Purposes == {EV, PRO, PRT}

\* Values secrets.randbelow(1000000) may return (one of them needs padding).
Draws == {42, 731905}
\* Values secrets.token_urlsafe(32) may return (every secret is a sequence: a
\* code of digits, a token of one opaque symbol).
TokenDraws == {<<"tokA">>, <<"tokB">>}

\* Draws at the ends of the range and around every change of digit count.
SampleDraws ==
    {0, 9, 10, 42, 100, 999, 1000, 10000, 99999, 100000, 999999}

EmailInputs == {"u1@x.io", "U1@X.IO", "u2@x.io", "ghost@x.io"}
InitialPassword == "OldPassword123!"
PasswordInputs == {"NewPassword456!", "123"}
\* Passwords submitted to login.
CredentialInputs == {InitialPassword} \cup PasswordInputs
\* The place of a User row that is not stored.
NoRow == [is_email_verified |-> FALSE, password |-> ""]

\* ------------------------------------------------------ pure functions

\* str.lower() on the addresses the model submits.
Lower(e) == IF e = "U1@X.IO" THEN "u1@x.io" ELSE e

\* User.objects.get(email=email): the user directory, keyed by stored email.
EmailOf(u) == IF u = "u1" THEN "u1@x.io" ELSE "u2@x.io"

get_user_any(email) == "u1"

validate_password_any(pw) == TRUE
\* django.contrib.auth.password_validation.validate_password (external policy).
validate_password(pw) == pw # "123"

RECURSIVE str(_)
\* str(n) for n >= 0, as its sequence of decimal digits.
str(n) == IF n < 10 THEN <<n>> ELSE str(n \div 10) \o <<n % 10>>

zfill_unpadded(s, width) == s
RECURSIVE zfill(_, _)
\* s.zfill(width): left-pad with zeros.
zfill(s, width) == IF Len(s) >= width THEN s ELSE zfill(<<0>> \o s, width)

\* EmailVerificationOTP.generate_code / PasswordResetOTP.generate_code.
generate_code(draw) == zfill(str(draw), CODE_LENGTH)

CodeInputs == {generate_code(d) : d \in Draws}

\* timedelta added to timezone.now() by create_for_user.
TTL_uniform(P) == OTP_TTL_MINUTES
TTL(P) == IF P = PRT THEN TOKEN_TTL_MINUTES ELSE OTP_TTL_MINUTES

is_valid_bad_boundary(r, t) == ~r.is_used /\ r.expires_at >= t
is_valid_ignores_used(r, t) == r.expires_at > t
is_valid_ignores_expiry(r, t) == ~r.is_used
\* is_valid(): not self.is_used and self.expires_at > timezone.now()
is_valid(r, t) == ~r.is_used /\ r.expires_at > t

\* ---------------------------------------------------------------- state
VARIABLES
    now,        \* timezone.now(), in minutes
    users,      \* User rows: [is_email_verified, password]
    records,    \* per purpose, the rows in order of `created`
    outbox,     \* tasks handed to the queue by .delay()
    pc,         \* each request's position
    call,       \* each open request's locals
    wr,         \* each open transaction's pending writes
    projects,   \* Project rows: [uuid, owner, name]
    response    \* the last response of the projects API

vars == <<now, users, records, outbox, pc, call, wr, projects, response>>

\* Before any request to the projects API.
NoResponse == [op |-> "none", user |-> NoUser, uuid |-> 0, status |-> "", results |-> {}]

\* A request's locals.  replay is history, not program state: a confirm of the
\* same purpose, user and secret had already succeeded when this one looked up.
IdleCall ==
    [kind |-> "none", user |-> NoUser, secret |-> <<>>, password |-> "",
     rec |-> 0, replay |-> FALSE]

Init ==
    /\ now = 0
    /\ users = [u \in Users |->
                  [is_email_verified |-> (u = "u2"), password |-> InitialPassword]]
    /\ records = [P \in Purposes |-> <<>>]
    /\ outbox = {}
    /\ pc = [p \in Procs |-> "idle"]
    /\ call = [p \in Procs |-> IdleCall]
    /\ wr = [p \in Procs |-> {}]
    /\ projects = {}
    /\ response = NoResponse

\* ------------------------------------------------------ store primitives

\* User.objects.get(email=email) / .filter(email=email).exists(): the stored
\* row with that email, if any.
get_user(email) ==
    IF \E u \in Users : EmailOf(u) = email /\ users[u] # NoRow
    THEN CHOOSE u \in Users : EmailOf(u) = email /\ users[u] # NoRow
    ELSE NoUser

Rows(P) == DOMAIN records[P]

\* A pending write's value for a field, or the stored value.
Written(p, tbl, key, field, stored) ==
    LET w == {x \in wr[p] : x.tbl = tbl /\ x.key = key /\ x.field = field}
    IN  IF w = {} THEN stored ELSE (CHOOSE x \in w : TRUE).val

\* What transaction p reads of row i: the stored row under p's own pending write.
View(p, P, i) ==
    [records[P][i] EXCEPT !.is_used = Written(p, P, i, "is_used", @)]

\* Rows of other open transactions are not visible.
Visible(p, P, i) == records[P][i].txn \in {"committed", p}

\* Another open transaction holds a write on the row: a write to it waits.
Locked(p, tbl, key) ==
    \E q \in Procs \ {p} : \E x \in wr[q] : x.tbl = tbl /\ x.key = key

TotalRows == Len(records[EV]) + Len(records[PRO]) + Len(records[PRT])

Free(p) == pc[p] = "idle"

PurposeOf(kind) ==
    CASE kind \in {"verify_otp", "resend_otp", "register", "login"} -> EV
      [] kind \in {"reset_otp_confirm", "reset_otp_request"} -> PRO
      [] OTHER -> PRT

IsConfirm(kind) == kind \in {"verify_otp", "reset_confirm", "reset_otp_confirm"}

\* The request returns an error response before it has written anything.
Respond(p) == UNCHANGED vars

\* The request goes on to its next statement.
Proceed(p, c, to) ==
    /\ pc' = [pc EXCEPT ![p] = to]
    /\ call' = [call EXCEPT ![p] = c]

\* A confirm of this purpose has succeeded on a row carrying the secret (and,
\* for the OTP purposes, owned by the submitted user).
Replayed(P, u, secret) ==
    \E i \in Rows(P) :
        /\ records[P][i].confirmed
        /\ records[P][i].secret = secret
        /\ P = PRT \/ records[P][i].user = u

mark_as_used_unsaved(P, i) == {}
mark_as_used_whole_table(P, i) ==
    {[tbl |-> P, key |-> j, field |-> "is_used", val |-> TRUE] : j \in Rows(P)}
mark_as_used_false(P, i) ==
    {[tbl |-> P, key |-> i, field |-> "is_used", val |-> FALSE]}
\* mark_as_used(): self.is_used = True; self.save(update_fields=["is_used", ...])
mark_as_used(P, i) ==
    {[tbl |-> P, key |-> i, field |-> "is_used", val |-> TRUE]}

\* ------------------------------------------------------------ confirmation

Unused_any_user(p, P, u, secret) ==
    {i \in Rows(P) :
        /\ Visible(p, P, i)
        /\ records[P][i].secret = secret
        /\ ~View(p, P, i).is_used}
Unused_any_purpose(p, P, u, secret) ==
    {i \in Rows(P) :
        /\ Visible(p, P, i)
        /\ P = PRT \/ records[P][i].user = u
        /\ ~View(p, P, i).is_used
        /\ \E Q \in Purposes : \E j \in Rows(Q) :
              records[Q][j].secret = secret /\ records[Q][j].user = records[P][i].user}
Unused_ignores_flag(p, P, u, secret) ==
    {i \in Rows(P) :
        /\ Visible(p, P, i)
        /\ P = PRT \/ records[P][i].user = u
        /\ records[P][i].secret = secret}
\* The rows .filter(user=user, code=code, is_used=False) returns to request p.
Unused(p, P, u, secret) ==
    {i \in Rows(P) :
        /\ Visible(p, P, i)
        /\ P = PRT \/ records[P][i].user = u
        /\ records[P][i].secret = secret
        /\ ~View(p, P, i).is_used}

\* .order_by("-created").first()
Newest(cand) == CHOOSE i \in cand : \A j \in cand : j <= i

\* OTPVerificationSerializer.validate: "ok", or the error message.
OTPVerification_response(p, e, code) ==
    LET u == get_user(Lower(e))
        cand == Unused(p, EV, u, code)
    IN  IF u = NoUser THEN "Invalid email or verification code."
        ELSE IF cand = {} THEN "Invalid email or verification code."
        ELSE IF ~is_valid(records[EV][Newest(cand)], now)
             THEN "Verification code has expired or is invalid."
        ELSE "ok"

\* One verify-otp request with the given body.
OTPVerification_request(p, e, code) ==
    /\ Free(p)
    /\ LET u == get_user(Lower(e))
       IN  IF OTPVerification_response(p, e, code) # "ok" THEN Respond(p)
           ELSE /\ Proceed(p, [IdleCall EXCEPT
                                 !.kind = "verify_otp", !.user = u, !.secret = code,
                                 !.rec = Newest(Unused(p, EV, u, code)),
                                 !.replay = Replayed(EV, u, code)],
                           "validated")
                /\ UNCHANGED <<now, users, records, outbox, wr, projects, response>>

OTPVerificationSerializer_validate(p) ==
    \E e \in EmailInputs, code \in CodeInputs : OTPVerification_request(p, e, code)

\* PasswordResetConfirmSerializer: validate_password, then validate.
PasswordResetConfirm_response(p, token, pw) ==
    LET cand == Unused(p, PRT, NoUser, token)
    IN  IF ~validate_password(pw) THEN "This password is too weak."
        ELSE IF cand = {} THEN "Invalid or expired password reset token."
        ELSE IF Cardinality(cand) > 1 THEN "MultipleObjectsReturned"
        ELSE IF ~is_valid(records[PRT][Newest(cand)], now)
             THEN "Invalid or expired password reset token."
        ELSE "ok"

\* One password-reset confirm request with the given body.
PasswordResetConfirm_request(p, token, pw) ==
    /\ Free(p)
    /\ LET tok == Newest(Unused(p, PRT, NoUser, token))
       IN  IF PasswordResetConfirm_response(p, token, pw) # "ok" THEN Respond(p)
           ELSE /\ Proceed(p, [IdleCall EXCEPT
                                 !.kind = "reset_confirm", !.secret = token,
                                 !.password = pw, !.rec = tok,
                                 !.user = records[PRT][tok].user,
                                 !.replay = Replayed(PRT, NoUser, token)],
                           "validated")
                /\ UNCHANGED <<now, users, records, outbox, wr, projects, response>>

PasswordResetConfirmSerializer_validate(p) ==
    \E token \in TokenDraws, pw \in PasswordInputs :
        PasswordResetConfirm_request(p, token, pw)

\* PasswordResetOTPConfirmSerializer: validate_email, validate_password, validate.
PasswordResetOTPConfirm_response(p, e, code, pw) ==
    LET u == get_user(Lower(e))
        cand == Unused(p, PRO, u, code)
    IN  IF ~validate_password(pw) THEN "This password is too weak."
        ELSE IF u = NoUser THEN "Invalid email or code."
        ELSE IF cand = {} THEN "Invalid or expired OTP code."
        ELSE IF Cardinality(cand) > 1 THEN "MultipleObjectsReturned"
        ELSE IF ~is_valid(records[PRO][Newest(cand)], now)
             THEN "OTP code has expired. Please request a new one."
        ELSE "ok"

\* One password-reset-OTP confirm request with the given body.
PasswordResetOTPConfirm_request(p, e, code, pw) ==
    /\ Free(p)
    /\ LET u == get_user(Lower(e))
       IN  IF PasswordResetOTPConfirm_response(p, e, code, pw) # "ok" THEN Respond(p)
           ELSE /\ Proceed(p, [IdleCall EXCEPT
                                 !.kind = "reset_otp_confirm", !.user = u,
                                 !.secret = code, !.password = pw,
                                 !.rec = Newest(Unused(p, PRO, u, code)),
                                 !.replay = Replayed(PRO, u, code)],
                           "validated")
                /\ UNCHANGED <<now, users, records, outbox, wr, projects, response>>

PasswordResetOTPConfirmSerializer_validate(p) ==
    \E e \in EmailInputs, code \in CodeInputs, pw \in PasswordInputs :
        PasswordResetOTPConfirm_request(p, e, code, pw)

side_effect_none(c) == {}
side_effect_resets_flag(c) ==
    IF c.kind = "verify_otp"
    THEN {[tbl |-> "User", key |-> c.user, field |-> "is_email_verified", val |-> TRUE]}
    ELSE {[tbl |-> "User", key |-> c.user, field |-> "password", val |-> c.password],
          [tbl |-> "User", key |-> c.user, field |-> "is_email_verified", val |-> FALSE]}
side_effect_first_user(c) ==
    IF c.kind = "verify_otp"
    THEN {[tbl |-> "User", key |-> "u1", field |-> "is_email_verified", val |-> TRUE]}
    ELSE {[tbl |-> "User", key |-> "u1", field |-> "password", val |-> c.password]}
\* The confirm's write to the user row.
\* OTPVerificationView.post: user.is_email_verified = True; user.save(...)
\* ...ConfirmSerializer.save: user.set_password(new_password); user.save(...)
side_effect(c) ==
    IF c.kind = "verify_otp"
    THEN {[tbl |-> "User", key |-> c.user, field |-> "is_email_verified", val |-> TRUE]}
    ELSE {[tbl |-> "User", key |-> c.user, field |-> "password", val |-> c.password]}

ApplySideEffect(p) ==
    /\ pc[p] = "validated"
    /\ ~Locked(p, "User", call[p].user)
    /\ wr' = [wr EXCEPT ![p] = @ \cup side_effect(call[p])]
    /\ pc' = [pc EXCEPT ![p] = "effected"]
    /\ UNCHANGED <<now, users, records, outbox, call, projects, response>>

\* otp.mark_as_used() / reset_token.mark_as_used(), after the user was saved.
MarkUsed(p) ==
    /\ pc[p] = "effected"
    /\ ~Locked(p, PurposeOf(call[p].kind), call[p].rec)
    /\ wr' = [wr EXCEPT ![p] = @ \cup mark_as_used(PurposeOf(call[p].kind), call[p].rec)]
    /\ pc' = [pc EXCEPT ![p] = "marked"]
    /\ UNCHANGED <<now, users, records, outbox, call, projects, response>>

\* ---------------------------------------------------------------- issuance

superseded_never(P, p, u) == {}
superseded_any_user(P, p, u) ==
    IF P = PRO
    THEN {i \in Rows(P) : Visible(p, P, i) /\ ~View(p, P, i).is_used}
    ELSE {}
superseded_always(P, p, u) ==
    {i \in Rows(P) : Visible(p, P, i) /\ records[P][i].user = u /\ ~View(p, P, i).is_used}
\* The rows create_for_user marks used before it inserts: for PasswordResetOTP,
\* cls.objects.filter(user=user, is_used=False); for the other two classes, none.
superseded(P, p, u) ==
    IF P = PRO
    THEN {i \in Rows(P) : Visible(p, P, i) /\ records[P][i].user = u
                          /\ ~View(p, P, i).is_used}
    ELSE {}

Invalidate_none(P, rows) == {}
Invalidate_revives(P, rows) ==
    {[tbl |-> P, key |-> i, field |-> "is_used", val |-> FALSE] : i \in Rows(P)}
\* .update(is_used=True) on those rows.
Invalidate(P, rows) ==
    {[tbl |-> P, key |-> i, field |-> "is_used", val |-> TRUE] : i \in rows}

\* cls.objects.create(user=user, code=code, expires_at=now + TTL), in p's
\* transaction.  confirmed is history, not a column: a confirm succeeded on it.
new_record(P, p, u, secret) ==
    [user |-> u, secret |-> secret, expires_at |-> now + TTL(P),
     is_used |-> FALSE, txn |-> p, confirmed |-> FALSE]

\* Rows that may still be inserted by requests that have started.
RoomFor(p) ==
    TotalRows + Cardinality({q \in Procs \ {p} : pc[q] = "invalidated"}) < MaxRecords

\* The task each issuing request hands its secret to.
TaskOf(kind) ==
    CASE kind \in {"register", "resend_otp", "login"} -> "send_otp_email"
      [] kind = "reset_request" -> "send_password_reset_email"
      [] OTHER -> "send_password_reset_otp_email"

Enqueue_dropped(task, u, secret) == outbox' = outbox
\* task.delay(user.id, secret)
Enqueue(task, u, secret) ==
    outbox' = outbox \cup {[task |-> task, user |-> u, secret |-> secret]}

\* create_for_user, for the classes that insert in one statement (after the
\* rows create_for_user supersedes, if any).
Issue(p, P, kind, u, secret) ==
    LET old == superseded(P, p, u)
    IN  /\ RoomFor(p)
        /\ \A i \in old : ~Locked(p, P, i)
        /\ wr' = [wr EXCEPT ![p] = Invalidate(P, old)]
        /\ records' = [records EXCEPT ![P] = Append(@, new_record(P, p, u, secret))]
        /\ Proceed(p, [IdleCall EXCEPT !.kind = kind, !.user = u, !.secret = secret,
                                       !.rec = Len(records[P]) + 1],
                   "created")
        /\ UNCHANGED <<now, users, outbox, projects, response>>

save_result_leaky(outcome) == outcome
\* What a save() hands back to its view: None when it returns (with or without
\* having created a record), or the error it raises.
save_result(outcome) == IF outcome \in {"return", "create"} THEN "None" ELSE outcome

ResendOTPSerializer_outcome_unguarded(e) ==
    IF get_user(Lower(e)) = NoUser THEN "return" ELSE "create"
\* ResendOTPSerializer.save, by the path it takes for a submitted email: "return"
\* (no such user), the ValidationError it raises, or "create".
ResendOTPSerializer_outcome(e) ==
    LET u == get_user(Lower(e))
    IN  IF u = NoUser THEN "return"
        ELSE IF users[u].is_email_verified THEN "Email address is already verified."
        ELSE "create"

\* ResendOTPView.post: the response, as [status, message].
ResendOTPView_response(e) ==
    IF save_result(ResendOTPSerializer_outcome(e)) = "None"
    THEN [status |-> 200, message |-> "Verification code sent to your email."]
    ELSE [status |-> 400, message |-> ResendOTPSerializer_outcome(e)]

\* One resend-otp request with the given body and the code it would draw.
ResendOTP_request(p, e, draw) ==
    /\ Free(p)
    /\ IF ResendOTPSerializer_outcome(e) # "create" THEN Respond(p)
       ELSE Issue(p, EV, "resend_otp", get_user(Lower(e)), generate_code(draw))

\* ResendOTPSerializer.save
ResendOTPSerializer_save(p) ==
    \E e \in EmailInputs, draw \in Draws : ResendOTP_request(p, e, draw)

PasswordResetRequestSerializer_outcome_unconstrained(e, token) ==
    IF get_user(Lower(e)) = NoUser THEN "return" ELSE "create"
\* PasswordResetRequestSerializer.save; the token column is unique=True: the
\* insert waits for an open transaction that inserted the same token, and
\* raises IntegrityError when the token is already stored.
PasswordResetRequestSerializer_outcome(e, token) ==
    IF get_user(Lower(e)) = NoUser THEN "return"
    ELSE IF \E i \in Rows(PRT) : records[PRT][i].secret = token THEN "IntegrityError"
    ELSE "create"

\* One password-reset request with the given body and the token it would draw.
PasswordResetRequest_request(p, e, token) ==
    /\ Free(p)
    /\ LET same == {i \in Rows(PRT) : records[PRT][i].secret = token}
       IN  IF PasswordResetRequestSerializer_outcome(e, token) = "return" THEN Respond(p)
           ELSE /\ \A i \in same : Visible(p, PRT, i)
                /\ IF PasswordResetRequestSerializer_outcome(e, token) # "create"
                   THEN Respond(p)
                   ELSE Issue(p, PRT, "reset_request", get_user(Lower(e)), token)

PasswordResetRequestSerializer_save(p) ==
    \E e \in EmailInputs, token \in TokenDraws : PasswordResetRequest_request(p, e, token)

\* PasswordResetOTPRequestSerializer.save, up to the first statement of
\* PasswordResetOTP.create_for_user: the bulk update of the user's unused rows.
PasswordResetOTPRequestSerializer_outcome(e) ==
    IF get_user(Lower(e)) = NoUser THEN "return" ELSE "create"

\* One password-reset-OTP request with the given body.
PasswordResetOTPRequest_request(p, e) ==
    /\ Free(p)
    /\ LET u == get_user(Lower(e))
           old == superseded(PRO, p, u)
       IN  IF PasswordResetOTPRequestSerializer_outcome(e) # "create" THEN Respond(p)
           ELSE /\ RoomFor(p)
                /\ \A i \in old : ~Locked(p, PRO, i)
                /\ wr' = [wr EXCEPT ![p] = Invalidate(PRO, old)]
                /\ Proceed(p, [IdleCall EXCEPT !.kind = "reset_otp_request", !.user = u],
                           "invalidated")
                /\ UNCHANGED <<now, users, records, outbox, projects, response>>

PasswordResetOTPRequestSerializer_save(p) ==
    \E e \in EmailInputs : PasswordResetOTPRequest_request(p, e)

\* The rest of PasswordResetOTP.create_for_user.
PasswordResetOTP_create(p) ==
    /\ pc[p] = "invalidated"
    /\ \E draw \in Draws :
         LET code == generate_code(draw)
         IN  /\ records' = [records EXCEPT
                              ![PRO] = Append(@, new_record(PRO, p, call[p].user, code))]
             /\ call' = [call EXCEPT ![p].secret = code, ![p].rec = Len(records[PRO]) + 1]
    /\ pc' = [pc EXCEPT ![p] = "created"]
    /\ UNCHANGED <<now, users, outbox, wr, projects, response>>

\* UserRegistrationSerializer: validate_email, validate_password.
UserRegistration_response(e, pw) ==
    IF get_user(Lower(e)) # NoUser THEN "A user with this email address already exists."
    ELSE IF ~validate_password(pw) THEN "This password is too weak."
    ELSE "created"

\* One registration request with the given body and the code it would draw:
\* UserRegistrationSerializer.create up to its .delay().  The new User row takes
\* the id the directory holds for its email.
UserRegistration_request(p, e, pw, draw) ==
    /\ Free(p)
    /\ IF UserRegistration_response(e, pw) # "created" THEN Respond(p)
       ELSE /\ \E u \in Users : EmailOf(u) = Lower(e)
            /\ LET u == CHOOSE u \in Users : EmailOf(u) = Lower(e)
                   code == generate_code(draw)
               IN  /\ RoomFor(p)
                   /\ ~Locked(p, "User", u)
                   /\ wr' = [wr EXCEPT ![p] =
                               {[tbl |-> "User", key |-> u,
                                 field |-> "is_email_verified", val |-> FALSE],
                                [tbl |-> "User", key |-> u,
                                 field |-> "password", val |-> pw]}]
                   /\ records' = [records EXCEPT
                                    ![EV] = Append(@, new_record(EV, p, u, code))]
                   /\ Proceed(p, [IdleCall EXCEPT !.kind = "register", !.user = u,
                                                  !.secret = code,
                                                  !.rec = Len(records[EV]) + 1],
                              "created")
                   /\ UNCHANGED <<now, users, outbox, projects, response>>

UserRegistrationSerializer_create(p) ==
    \E e \in EmailInputs, pw \in PasswordInputs, draw \in Draws :
        UserRegistration_request(p, e, pw, draw)

authenticate_any_password(e, pw) == get_user(e)
\* TokenObtainPairSerializer.validate: authenticate(email=..., password=...), the
\* email compared as submitted.
authenticate(e, pw) ==
    LET u == get_user(e)
    IN  IF u # NoUser /\ users[u].password = pw THEN u ELSE NoUser

EmailTokenObtainPairSerializer_validate_unchecked(e, pw) ==
    IF authenticate(e, pw) = NoUser
    THEN "No active account found with the given credentials"
    ELSE "tokens"
\* EmailTokenObtainPairSerializer.validate: the error it raises, or "tokens".
EmailTokenObtainPairSerializer_validate(e, pw) ==
    LET u == authenticate(e, pw)
    IN  IF u = NoUser THEN "No active account found with the given credentials"
        ELSE IF ~users[u].is_email_verified THEN "email_verification_required"
        ELSE "tokens"

\* One login request with the given body and the code it would draw:
\* EmailTokenObtainPairView.post.  The serializer runs in a transaction that
\* writes nothing; on the verification-required error the view opens a second
\* transaction, creates the code in it and enqueues, then re-raises.
EmailTokenObtainPair_request(p, e, pw, draw) ==
    /\ Free(p)
    /\ IF EmailTokenObtainPairSerializer_validate(e, pw) # "email_verification_required"
       THEN Respond(p)
       ELSE IF get_user(Lower(e)) = NoUser THEN Respond(p)
       ELSE Issue(p, EV, "login", get_user(Lower(e)), generate_code(draw))

EmailTokenObtainPairView_post(p) ==
    \E e \in EmailInputs, pw \in CredentialInputs, draw \in Draws :
        EmailTokenObtainPair_request(p, e, pw, draw)

\* ------------------------------------------------------ request boundary

\* The transaction commits: all of its writes and inserts become visible
\* together.
CommitWrites(p) ==
    /\ users' = [u \in Users |->
                   [is_email_verified |->
                        Written(p, "User", u, "is_email_verified", users[u].is_email_verified),
                    password |-> Written(p, "User", u, "password", users[u].password)]]
    /\ records' = [P \in Purposes |->
                     [i \in Rows(P) |->
                        [records[P][i] EXCEPT
                           !.is_used = Written(p, P, i, "is_used", @),
                           !.txn = IF @ = p THEN "committed" ELSE @,
                           !.confirmed = @ \/ (/\ IsConfirm(call[p].kind)
                                               /\ P = PurposeOf(call[p].kind)
                                               /\ i = call[p].rec)]]]
    /\ wr' = [wr EXCEPT ![p] = {}]
    /\ pc' = [pc EXCEPT ![p] = "idle"]
    /\ call' = [call EXCEPT ![p] = IdleCall]

\* A confirm returns normally: its transaction commits and the success
\* response is sent.
Commit(p) ==
    /\ pc[p] = "marked"
    /\ CommitWrites(p)
    /\ UNCHANGED <<now, outbox, projects, response>>

\* An issuance's last statement, task.delay(user.id, secret), returns: the task
\* is in the queue, save() returns and the transaction around the insert
\* commits.
Delay(p) ==
    /\ pc[p] = "created"
    /\ Enqueue(TaskOf(call[p].kind), call[p].user, call[p].secret)
    /\ CommitWrites(p)
    /\ UNCHANGED <<now, projects, response>>

\* task.delay(user.id, secret) raises (the broker cannot be reached).  No
\* handler catches it: the exception leaves save() and the view, and the
\* transaction around the insert is rolled back, the inserted row with it.
\* (Requests are served one at a time where this step is enabled: the row is
\* the request's own, and no other request holds a position after it.)
DelayRaises(p) ==
    /\ pc[p] = "created"
    /\ records' = [records EXCEPT
                     ![PurposeOf(call[p].kind)] =
                        SubSeq(@, 1, call[p].rec - 1)
                          \o SubSeq(@, call[p].rec + 1, Len(@))]
    /\ wr' = [wr EXCEPT ![p] = {}]
    /\ pc' = [pc EXCEPT ![p] = "idle"]
    /\ call' = [call EXCEPT ![p] = IdleCall]
    /\ UNCHANGED <<now, users, outbox, projects, response>>

\* The request dies between its two writes (an exception, a crash): its
\* transaction is rolled back and nothing it wrote is stored.
Rollback(p) ==
    /\ pc[p] = "effected"
    /\ wr' = [wr EXCEPT ![p] = {}]
    /\ pc' = [pc EXCEPT ![p] = "idle"]
    /\ call' = [call EXCEPT ![p] = IdleCall]
    /\ UNCHANGED <<now, users, records, outbox, projects, response>>

\* The clock advances.
Tick ==
    /\ now < MaxTicks * TickMinutes
    /\ now' = now + TickMinutes
    /\ UNCHANGED <<users, records, outbox, pc, call, wr, projects, response>>

\* One statement of request p.
Step(p) ==
    \/ OTPVerificationSerializer_validate(p)
    \/ PasswordResetConfirmSerializer_validate(p)
    \/ PasswordResetOTPConfirmSerializer_validate(p)
    \/ ApplySideEffect(p)
    \/ MarkUsed(p)
    \/ ResendOTPSerializer_save(p)
    \/ PasswordResetRequestSerializer_save(p)
    \/ PasswordResetOTPRequestSerializer_save(p)
    \/ PasswordResetOTP_create(p)
    \/ Delay(p)
    \/ Commit(p)
    \/ Rollback(p)

\* Requests of independent processes interleave statement by statement; the
\* clock stands still while they race.
Next == \E p \in Procs : Step(p)

Spec == Init /\ [][Next]_vars

\* One request at a time, each run to its end by one worker before the next
\* starts, while the clock advances between and inside them.
Worker == "p1"

NextSeq == Tick \/ Step(Worker)

SpecSeq == Init /\ [][NextSeq]_vars

\* Before anyone has registered under the first address.
InitIssue ==
    /\ now = 0
    /\ users = [u \in Users |->
                  IF u = "u1" THEN NoRow
                  ELSE [is_email_verified |-> TRUE, password |-> InitialPassword]]
    /\ records = [P \in Purposes |-> <<>>]
    /\ outbox = {}
    /\ pc = [p \in Procs |-> "idle"]
    /\ call = [p \in Procs |-> IdleCall]
    /\ wr = [p \in Procs |-> {}]
    /\ projects = {}
    /\ response = NoResponse

\* Registration, login, the issuances and the confirms, served one request at
\* a time, with a queue that may refuse a task.
NextIssue ==
    \/ UserRegistrationSerializer_create(Worker)
    \/ EmailTokenObtainPairView_post(Worker)
    \/ ResendOTPSerializer_save(Worker)
    \/ PasswordResetRequestSerializer_save(Worker)
    \/ PasswordResetOTPRequestSerializer_save(Worker)
    \/ PasswordResetOTP_create(Worker)
    \/ Delay(Worker)
    \/ DelayRaises(Worker)
    \/ OTPVerificationSerializer_validate(Worker)
    \/ PasswordResetConfirmSerializer_validate(Worker)
    \/ PasswordResetOTPConfirmSerializer_validate(Worker)
    \/ ApplySideEffect(Worker)
    \/ MarkUsed(Worker)
    \/ Commit(Worker)
    \/ Rollback(Worker)

SpecIssue == InitIssue /\ [][NextIssue]_vars

\* ResendOTPThrottle.get_cache_key: the key a resend request with an email is
\* counted under.
get_cache_key(e) == Lower(e)

\* ResendOTPView.post, a whole request in one step: the view declares no
\* throttle_classes, so the request goes to the serializer whatever
\* ResendOTPThrottle would say; save() creates and enqueues, and the request
\* returns.
ResendOTPView_post(p) ==
    \E e \in EmailInputs, draw \in Draws :
        /\ Free(p)
        /\ Len(records[EV]) < MaxResends
        /\ IF ResendOTPSerializer_outcome(e) # "create" THEN Respond(p)
           ELSE /\ records' = [records EXCEPT
                                 ![EV] = Append(@, [new_record(EV, p, get_user(Lower(e)),
                                                               generate_code(draw))
                                                      EXCEPT !.txn = "committed"])]
                /\ Enqueue("send_otp_email", get_user(Lower(e)), generate_code(draw))
                /\ UNCHANGED <<now, users, pc, call, wr, projects, response>>

NextResend == Tick \/ ResendOTPView_post(Worker)

\* Resend requests, one at a time, while the clock advances.
SpecResend == Init /\ [][NextResend]_vars

\* EmailVerificationOTP.create_for_user / PasswordResetOTP.create_for_user called
\* on its own, outside a request: PasswordResetOTP first marks the user's unused
\* rows used; both then insert a row with a freshly generated code.
create_for_user(P, u, draw) ==
    LET old == superseded(P, Worker, u)
    IN  /\ TotalRows < MaxRecords
        /\ records' = [records EXCEPT
                         ![P] = Append([i \in Rows(P) |->
                                          [records[P][i] EXCEPT
                                             !.is_used = @ \/ i \in old]],
                                       [new_record(P, Worker, u, generate_code(draw))
                                          EXCEPT !.txn = "committed"])]
        /\ UNCHANGED <<now, users, outbox, pc, call, wr, projects, response>>

NextCode ==
    \E P \in {EV, PRO}, u \in Users, draw \in SampleDraws : create_for_user(P, u, draw)

\* Codes generated over the sampled range of draws.
SpecCode == Init /\ [][NextCode]_vars

\* ------------------------------------------------------------- projects

\* Values uuid.uuid4 may return, and names a client may send.
ProjectUUIDs == 1..MaxProjects
ProjectNames == {"Alpha", "Beta"}

\* isinstance(user, User), User being django.contrib.auth.models.User: the
\* authenticated user is an apps.users.models.User, a subclass of AbstractUser
\* and BaseModel, which django.contrib.auth.models.User is not a base of.
isinstance_User(u) == FALSE

get_queryset_any_owner(asserts, u) ==
    [raises |-> asserts /\ ~isinstance_User(u), rows |-> projects]
\* ProjectViewSet.get_queryset: the assert statement, executed unless the
\* interpreter strips asserts (python -O), raises AssertionError when it
\* fails; otherwise the rows of Project.objects.filter(owner=user).
get_queryset(asserts, u) ==
    [raises |-> asserts /\ ~isinstance_User(u),
     rows |-> {r \in projects : r.owner = u}]

\* get_object(): the row of the queryset with that uuid, or none (Http404).
get_object(qs, id) == {r \in qs.rows : r.uuid = id}

\* POST /projects/: ProjectCreateSerializer.create sets owner to request.user;
\* get_queryset is not called.
ProjectViewSet_create(u, name) ==
    /\ Cardinality(projects) < MaxProjects
    /\ \E id \in ProjectUUIDs \ {r.uuid : r \in projects} :
          /\ projects' = projects \cup {[uuid |-> id, owner |-> u, name |-> name]}
          /\ response' = [op |-> "create", user |-> u, uuid |-> id,
                          status |-> "201", results |-> {id}]
    /\ UNCHANGED <<now, users, records, outbox, pc, call, wr>>

\* GET /projects/
ProjectViewSet_list(asserts, u) ==
    LET qs == get_queryset(asserts, u)
    IN  /\ response' = IF qs.raises
                       THEN [op |-> "list", user |-> u, uuid |-> 0,
                             status |-> "500", results |-> {}]
                       ELSE [op |-> "list", user |-> u, uuid |-> 0,
                             status |-> "200", results |-> {r.uuid : r \in qs.rows}]
        /\ UNCHANGED <<now, users, records, outbox, pc, call, wr, projects>>

\* GET /projects/{uuid}/
ProjectViewSet_retrieve(asserts, u, id) ==
    LET qs == get_queryset(asserts, u)
    IN  /\ response' =
              IF qs.raises
              THEN [op |-> "retrieve", user |-> u, uuid |-> id,
                    status |-> "500", results |-> {}]
              ELSE IF get_object(qs, id) = {}
              THEN [op |-> "retrieve", user |-> u, uuid |-> id,
                    status |-> "404", results |-> {}]
              ELSE [op |-> "retrieve", user |-> u, uuid |-> id,
                    status |-> "200", results |-> {id}]
        /\ UNCHANGED <<now, users, records, outbox, pc, call, wr, projects>>

\* PUT/PATCH /projects/{uuid}/: owner is read-only, the name is saved.
ProjectViewSet_update(asserts, u, id, name) ==
    LET qs == get_queryset(asserts, u)
    IN  IF qs.raises
        THEN /\ response' = [op |-> "update", user |-> u, uuid |-> id,
                             status |-> "500", results |-> {}]
             /\ UNCHANGED <<now, users, records, outbox, pc, call, wr, projects>>
        ELSE IF get_object(qs, id) = {}
        THEN /\ response' = [op |-> "update", user |-> u, uuid |-> id,
                             status |-> "404", results |-> {}]
             /\ UNCHANGED <<now, users, records, outbox, pc, call, wr, projects>>
        ELSE /\ projects' = (projects \ get_object(qs, id))
                               \cup {[r EXCEPT !.name = name] : r \in get_object(qs, id)}
             /\ response' = [op |-> "update", user |-> u, uuid |-> id,
                             status |-> "200", results |-> {id}]
             /\ UNCHANGED <<now, users, records, outbox, pc, call, wr>>

\* DELETE /projects/{uuid}/
ProjectViewSet_destroy(asserts, u, id) ==
    LET qs == get_queryset(asserts, u)
    IN  IF qs.raises
        THEN /\ response' = [op |-> "destroy", user |-> u, uuid |-> id,
                             status |-> "500", results |-> {}]
             /\ UNCHANGED <<now, users, records, outbox, pc, call, wr, projects>>
        ELSE IF get_object(qs, id) = {}
        THEN /\ response' = [op |-> "destroy", user |-> u, uuid |-> id,
                             status |-> "404", results |-> {}]
             /\ UNCHANGED <<now, users, records, outbox, pc, call, wr, projects>>
        ELSE /\ projects' = projects \ get_object(qs, id)
             /\ response' = [op |-> "destroy", user |-> u, uuid |-> id,
                             status |-> "204", results |-> {}]
             /\ UNCHANGED <<now, users, records, outbox, pc, call, wr>>

NextProjects ==
    \/ \E u \in Users, name \in ProjectNames : ProjectViewSet_create(u, name)
    \/ \E asserts \in BOOLEAN, u \in Users : ProjectViewSet_list(asserts, u)
    \/ \E asserts \in BOOLEAN, u \in Users, id \in ProjectUUIDs :
          ProjectViewSet_retrieve(asserts, u, id)
    \/ \E asserts \in BOOLEAN, u \in Users, id \in ProjectUUIDs, name \in ProjectNames :
          ProjectViewSet_update(asserts, u, id, name)
    \/ \E asserts \in BOOLEAN, u \in Users, id \in ProjectUUIDs :
          ProjectViewSet_destroy(asserts, u, id)

\* Authenticated users' requests to the projects API, one at a time.
SpecProjects == Init /\ [][NextProjects]_vars

\* The last clock reading at which a record is issued, and the reading by
\* which the longest-lived record issued then has expired.
LastIssue == MaxTicks * TickMinutes
ClockHorizon == LastIssue + TOKEN_TTL_MINUTES

\* The clock advances, for as long as any record could still be unexpired.
TickOn ==
    /\ now < ClockHorizon
    /\ now' = now + TickMinutes
    /\ UNCHANGED <<users, records, outbox, pc, call, wr, projects, response>>

\* PasswordResetToken.create_for_user: objects.create(user=user, token=token,
\* expires_at=timezone.now() + timedelta(hours=1)), committed.
PasswordResetToken_create_for_user(u, token) ==
    /\ TotalRows < MaxRecords
    /\ records' = [records EXCEPT
                     ![PRT] = Append(@, [new_record(PRT, Worker, u, token)
                                           EXCEPT !.txn = "committed"])]
    /\ UNCHANGED <<now, users, outbox, pc, call, wr, projects, response>>

\* record.mark_as_used() on a stored record, committed.
Record_mark_as_used(P, i) ==
    /\ records' = [records EXCEPT
                     ![P] = [j \in Rows(P) |->
                               LET w == {x \in mark_as_used(P, i) :
                                           x.tbl = P /\ x.key = j /\ x.field = "is_used"}
                               IN  IF w = {} THEN records[P][j]
                                   ELSE [records[P][j] EXCEPT
                                           !.is_used = (CHOOSE x \in w : TRUE).val]]]
    /\ UNCHANGED <<now, users, outbox, pc, call, wr, projects, response>>

\* The draw of the one code and the one token issued while the clock runs.
ClockDraws == {42}
ClockTokenDraws == {<<"tokA">>}

NextClock ==
    \/ TickOn
    \/ \E P \in {EV, PRO}, u \in Users, draw \in ClockDraws :
          now <= LastIssue /\ create_for_user(P, u, draw)
    \/ \E u \in Users, token \in ClockTokenDraws :
          now <= LastIssue /\ PasswordResetToken_create_for_user(u, token)
    \/ \E P \in Purposes : \E i \in Rows(P) : Record_mark_as_used(P, i)

\* Records are issued, superseded and marked used while the clock keeps
\* advancing.
SpecClock == Init /\ [][NextClock]_vars /\ WF_vars(TickOn)

\* ------------------------------------------------------------------ claims

Purpose(p) == PurposeOf(call[p].kind)

\* Request p returns its success response in this step.
Succeeds(p) ==
    /\ pc[p] \in {"marked", "created"} /\ pc'[p] = "idle"
    /\ Len(records'[Purpose(p)]) = Len(records[Purpose(p)])

ConfirmSucceeds(p) == Succeeds(p) /\ IsConfirm(call[p].kind)

\* C1: when two confirms carrying the same valid secret run concurrently,
\* exactly one reports success: no confirm reports success on a record on which
\* another confirm has already reported success.
C1_ExactlyOneConfirmSucceeds ==
    [][\A p \in Procs :
         ConfirmSucceeds(p) => ~records[Purpose(p)][call[p].rec].confirmed]_vars

\* The stored (committed) password-reset OTPs of user u that are valid now.
ValidResetOTPs(u) ==
    {i \in Rows(PRO) :
        /\ records[PRO][i].txn = "committed"
        /\ records[PRO][i].user = u
        /\ is_valid(records[PRO][i], now)}

\* C2: in every reachable state each user has at most one valid
\* PasswordResetOTP record.
C2_AtMostOneValidResetOTP ==
    \A u \in Users : Cardinality(ValidResetOTPs(u)) <= 1

\* C3: after concurrent password-reset-OTP issuances for one user have all
\* finished, exactly one of the created records is valid and it is the most
\* recently created one: every older record of the user is used, and the
\* newest is unused until a confirm consumes it.
C3_NewestResetOTPSurvives ==
    (\A p \in Procs : call[p].kind # "reset_otp_request") =>
        \A u \in Users :
            LET mine == {i \in Rows(PRO) : records[PRO][i].user = u}
            IN  \A i \in mine :
                    IF i = Newest(mine)
                    THEN records[PRO][i].is_used => records[PRO][i].confirmed
                    ELSE records[PRO][i].is_used

C5_ReissueInvalidatesOld ==
    [][(Succeeds(Worker) /\ call[Worker].kind = "reset_otp_request") =>
         \A i \in Rows(PRO) :
            records[PRO][i].user = call[Worker].user =>
                (records'[PRO][i].is_used <=> i # call[Worker].rec)]_vars

C5_Witness ==
    /\ pc[Worker] = "idle"
    /\ \E i, j \in Rows(PRO) :
         /\ i < j
         /\ records[PRO][i].user = records[PRO][j].user
         /\ records[PRO][i].is_used /\ ~records[PRO][i].confirmed
         /\ records[PRO][i].expires_at > now
         /\ ~records[PRO][j].is_used /\ records[PRO][j].txn = "committed"

\* C6: issuing an email-verification OTP leaves every existing
\* EmailVerificationOTP record unchanged, when it inserts and when it commits.
C6_EmailIssueLeavesOthers ==
    [][\A p \in Procs :
         (pc[p] = "idle" /\ pc'[p] = "created" /\ call'[p].kind = "resend_otp")
         \/ (call[p].kind = "resend_otp" /\ Succeeds(p))
         => \A i \in Rows(EV) :
               i # call[p].rec =>
                   /\ records'[EV][i].is_used = records[EV][i].is_used
                   /\ records'[EV][i].expires_at = records[EV][i].expires_at
                   /\ records'[EV][i].secret = records[EV][i].secret
                   /\ records'[EV][i].user = records[EV][i].user]_vars

\* Two valid codes of one user coexist.
C6_Witness ==
    \E i, j \in Rows(EV) :
        /\ i < j
        /\ records[EV][i].user = records[EV][j].user
        /\ records[EV][i].txn = "committed" /\ records[EV][j].txn = "committed"
        /\ is_valid(records[EV][i], now) /\ is_valid(records[EV][j], now)

\* C7: is_used never changes from true back to false, for any record of any
\* purpose, in any interleaving.
C7_UsedIsMonotonic ==
    [][\A P \in Purposes : \A i \in Rows(P) :
         records[P][i].is_used => records'[P][i].is_used]_vars

\* One record consumed by a confirm, one superseded by a reissue.
C7_Witness ==
    \E i, j \in Rows(PRO) :
        /\ records[PRO][i].is_used /\ ~records[PRO][i].confirmed
        /\ records[PRO][j].is_used /\ records[PRO][j].confirmed

\* C8: once mark_as_used has been called on a record, is_valid() is false,
\* whether or not expires_at is still in the future: for the request that
\* called it, and for everyone once the confirm has committed.
C8_UsedIsInvalid ==
    /\ \A p \in Procs :
         pc[p] = "marked" => ~is_valid(View(p, Purpose(p), call[p].rec), now)
    /\ \A P \in Purposes : \A i \in Rows(P) :
         records[P][i].confirmed => ~is_valid(records[P][i], now)

C8_Witness ==
    \E p \in Procs :
        /\ pc[p] = "marked"
        /\ records[Purpose(p)][call[p].rec].expires_at > now

\* C9: is_valid() is true exactly when is_used is false and now < expires_at;
\* it is false at now = expires_at and afterwards.
C9_ValidIffUnusedAndUnexpired ==
    \A P \in Purposes : \A i \in Rows(P) :
        LET r == records[P][i]
        IN  /\ is_valid(r, now) <=> (r.is_used = FALSE /\ now < r.expires_at)
            /\ now >= r.expires_at => ~is_valid(r, now)

\* A never-used record at the instant it expires.
C9_Witness ==
    \E P \in Purposes : \E i \in Rows(P) :
        ~records[P][i].is_used /\ records[P][i].expires_at = now

ValidPassword == CHOOSE pw \in PasswordInputs : validate_password(pw)

C11_ConfirmAppliesBoth ==
    [][\A p \in Procs :
         ConfirmSucceeds(p) =>
            LET c == call[p]
                r == records'[Purpose(p)][c.rec]
            IN  /\ r.user = c.user
                /\ r.is_used
                /\ IF c.kind = "verify_otp"
                   THEN users'[c.user].is_email_verified
                   ELSE users'[c.user].password = c.password]_vars

\* Every request has returned, and a confirm among them succeeded.
C11_Witness ==
    /\ \A p \in Procs : Free(p)
    /\ \E P \in Purposes : \E i \in Rows(P) :
         /\ records[P][i].confirmed /\ records[P][i].is_used
         /\ IF P = EV THEN records[P][i].user = "u1" /\ users["u1"].is_email_verified
                      ELSE users[records[P][i].user].password = ValidPassword

\* Pairs <<P1, P2>> of stored password-reset OTPs of user u: P1 issued before
\* P2, and P2 the user's most recently issued one.
ReissuedResetOTPs(u) ==
    LET mine == {i \in Rows(PRO) : records[PRO][i].user = u
                                    /\ records[PRO][i].txn = "committed"}
    IN  {<<i, j>> \in mine \X mine : i < j /\ j = Newest(mine)}

WeakPassword == "123"

\* C13: a password-reset confirm (by token or by OTP) whose new password the
\* policy rejects fails and writes nothing: the password and the record's
\* is_used are as before, so the secret is accepted afterwards exactly as it
\* would have been before.
C13_WeakPasswordConsumesNothing ==
    /\ [](\A p \in Procs : Free(p) =>
            /\ \A token \in TokenDraws :
                 PasswordResetConfirm_response(p, token, WeakPassword) # "ok"
            /\ \A e \in EmailInputs, code \in CodeInputs :
                 PasswordResetOTPConfirm_response(p, e, code, WeakPassword) # "ok")
    /\ [][\A p \in Procs : (Free(p) /\ vars' # vars) =>
             /\ \A token \in TokenDraws :
                  ~PasswordResetConfirm_request(p, token, WeakPassword)
             /\ \A e \in EmailInputs, code \in CodeInputs :
                  ~PasswordResetOTPConfirm_request(p, e, code, WeakPassword)]_vars

\* A stored, valid token and a stored, valid reset OTP, each refused with the
\* weak password and accepted with a compliant one.
C13_Witness ==
    \E p \in Procs :
        /\ Free(p)
        /\ \E token \in TokenDraws :
             /\ PasswordResetConfirm_response(p, token, WeakPassword)
                   = "This password is too weak."
             /\ PasswordResetConfirm_response(p, token, ValidPassword) = "ok"
        /\ \E e \in EmailInputs, code \in CodeInputs :
             /\ PasswordResetOTPConfirm_response(p, e, code, WeakPassword)
                   = "This password is too weak."
             /\ PasswordResetOTPConfirm_response(p, e, code, ValidPassword) = "ok"

\* The submitted address, normalized, is no user's address.
NoSuchUser(e) == \A u \in Users : EmailOf(u) # Lower(e)

\* C14: an issuance request (resend verification OTP, password-reset token,
\* password-reset OTP) whose normalized email matches no user takes the
\* return-at-once path and changes nothing: no record of any purpose is
\* created and no notification is enqueued; every stored record and every
\* enqueued notification belongs to an existing user.
C14_UnknownEmailIssuesNothing ==
    /\ [](/\ \A e \in EmailInputs : NoSuchUser(e) =>
                /\ ResendOTPSerializer_outcome(e) = "return"
                /\ PasswordResetOTPRequestSerializer_outcome(e) = "return"
                /\ \A token \in TokenDraws :
                     PasswordResetRequestSerializer_outcome(e, token) = "return"
           /\ \A P \in Purposes : \A i \in Rows(P) : records[P][i].user \in Users
           /\ \A msg \in outbox : msg.user \in Users)
    /\ [][\A p \in Procs : (Free(p) /\ vars' # vars) =>
             \A e \in EmailInputs : NoSuchUser(e) =>
                /\ \A draw \in Draws : ~ResendOTP_request(p, e, draw)
                /\ \A token \in TokenDraws : ~PasswordResetRequest_request(p, e, token)
                /\ ~PasswordResetOTPRequest_request(p, e)]_vars

\* A request is about to be served where an unknown address takes the return
\* path of all three issuances while a known one would be issued a record of
\* each kind, and earlier issuances have stored and enqueued for known users.
C14_Witness ==
    \E p \in Procs : \E e, f \in EmailInputs :
        /\ Free(p) /\ RoomFor(p)
        /\ NoSuchUser(e) /\ ~NoSuchUser(f)
        /\ ResendOTPSerializer_outcome(e) = "return"
        /\ ResendOTPSerializer_outcome(f) = "create"
        /\ PasswordResetOTPRequestSerializer_outcome(e) = "return"
        /\ PasswordResetOTPRequestSerializer_outcome(f) = "create"
        /\ \E token \in TokenDraws :
             /\ PasswordResetRequestSerializer_outcome(e, token) = "return"
             /\ PasswordResetRequestSerializer_outcome(f, token) = "create"
        /\ TotalRows > 0 /\ outbox # {}

\* C15 as stated: for each issuance operation, an address of no user and an
\* address of an existing user get the same response.
C15_SameResponseForUnknownEmail ==
    \A e, f \in EmailInputs : (NoSuchUser(e) /\ ~NoSuchUser(f)) =>
        /\ ResendOTPView_response(e) = ResendOTPView_response(f)
        /\ save_result(PasswordResetOTPRequestSerializer_outcome(e))
             = save_result(PasswordResetOTPRequestSerializer_outcome(f))
        /\ \A token \in TokenDraws :
             save_result(PasswordResetRequestSerializer_outcome(e, token))
               = save_result(PasswordResetRequestSerializer_outcome(f, token))

\* C15, amended: an address of no user gets the same response as an address of
\* an existing user from the password-reset-OTP request always, from the resend
\* request when the existing user is not yet verified, and from the
\* password-reset-token request when the token drawn is not already stored.
C15_SameResponseUnlessVerified ==
    \A e, f \in EmailInputs : (NoSuchUser(e) /\ ~NoSuchUser(f)) =>
        /\ ~users[get_user(Lower(f))].is_email_verified =>
               ResendOTPView_response(e) = ResendOTPView_response(f)
        /\ save_result(PasswordResetOTPRequestSerializer_outcome(e))
             = save_result(PasswordResetOTPRequestSerializer_outcome(f))
        /\ \A token \in TokenDraws :
             (\A i \in Rows(PRT) : records[PRT][i].secret # token) =>
                save_result(PasswordResetRequestSerializer_outcome(e, token))
                  = save_result(PasswordResetRequestSerializer_outcome(f, token))

\* An unverified user who has already been sent a code: an unknown address and
\* this user's address take different paths and get the same 200 response.
C15_Witness ==
    \E e, f \in EmailInputs :
        /\ NoSuchUser(e) /\ ~NoSuchUser(f)
        /\ ResendOTPSerializer_outcome(e) = "return"
        /\ ResendOTPSerializer_outcome(f) = "create"
        /\ ResendOTPView_response(e) = ResendOTPView_response(f)
        /\ ResendOTPView_response(f).status = 200
        /\ \E i \in Rows(EV) : records[EV][i].user = get_user(Lower(f))
                                  /\ records[EV][i].txn = "committed"

\* The submitted address, normalized, is the address of a verified user.
VerifiedUser(e) == \E u \in Users : EmailOf(u) = Lower(e) /\ users[u].is_email_verified

\* C16: a resend request for an existing user whose is_email_verified is true
\* fails with the already-verified error and changes nothing: no
\* EmailVerificationOTP is created and no notification is enqueued.
C16_ResendForVerifiedFails ==
    /\ [](\A e \in EmailInputs : VerifiedUser(e) =>
             ResendOTPView_response(e)
               = [status |-> 400, message |-> "Email address is already verified."])
    /\ [][\A p \in Procs : (Free(p) /\ vars' # vars) =>
             \A e \in EmailInputs, draw \in Draws :
                VerifiedUser(e) => ~ResendOTP_request(p, e, draw)]_vars

\* A user verified by a confirm asks for another code while there is room for
\* one, and is answered 400.
C16_Witness ==
    \E p \in Procs :
        /\ Free(p) /\ RoomFor(p)
        /\ users["u1"].is_email_verified
        /\ \E i \in Rows(EV) : records[EV][i].user = "u1" /\ records[EV][i].confirmed
        /\ ResendOTPView_response(EmailOf("u1")).status = 400

\* The rows of purpose P that request p can see carrying the secret (and, for
\* the OTP purposes, owned by u).
Carrying(p, P, u, secret) ==
    {i \in Rows(P) :
        /\ Visible(p, P, i)
        /\ (P = PRT \/ records[P][i].user = u)
        /\ records[P][i].secret = secret}

\* The secret matches a record, and every record it matches is already used.
UsedOnly(p, P, u, secret) ==
    /\ Carrying(p, P, u, secret) # {}
    /\ \A i \in Carrying(p, P, u, secret) : View(p, P, i).is_used

\* C17: for every confirm operation, a secret that matches only used records
\* gets the same error as a secret that matches no record at all.
C17_UsedLooksLikeUnknown ==
    \A p \in Procs : Free(p) =>
        /\ \A u \in Users : \A cu, cn \in CodeInputs :
             /\ (UsedOnly(p, EV, u, cu) /\ Carrying(p, EV, u, cn) = {}) =>
                    /\ OTPVerification_response(p, EmailOf(u), cu) # "ok"
                    /\ OTPVerification_response(p, EmailOf(u), cu)
                         = OTPVerification_response(p, EmailOf(u), cn)
             /\ (UsedOnly(p, PRO, u, cu) /\ Carrying(p, PRO, u, cn) = {}) =>
                    /\ PasswordResetOTPConfirm_response(p, EmailOf(u), cu, ValidPassword) # "ok"
                    /\ PasswordResetOTPConfirm_response(p, EmailOf(u), cu, ValidPassword)
                         = PasswordResetOTPConfirm_response(p, EmailOf(u), cn, ValidPassword)
        /\ \A tu, tn \in TokenDraws :
             (UsedOnly(p, PRT, NoUser, tu) /\ Carrying(p, PRT, NoUser, tn) = {}) =>
                /\ PasswordResetConfirm_response(p, tu, ValidPassword) # "ok"
                /\ PasswordResetConfirm_response(p, tu, ValidPassword)
                     = PasswordResetConfirm_response(p, tn, ValidPassword)

\* A reset OTP used but not yet expired, and a code the user was never issued:
\* both get the no-such-code error.
C17_Witness ==
    \E p \in Procs : \E u \in Users : \E cu, cn \in CodeInputs :
        /\ Free(p)
        /\ UsedOnly(p, PRO, u, cu) /\ Carrying(p, PRO, u, cn) = {}
        /\ \A i \in Carrying(p, PRO, u, cu) : records[PRO][i].expires_at > now
        /\ PasswordResetOTPConfirm_response(p, EmailOf(u), cu, ValidPassword)
             = "Invalid or expired OTP code."
        /\ PasswordResetOTPConfirm_response(p, EmailOf(u), cn, ValidPassword)
             = "Invalid or expired OTP code."

\* The secret matches an unused record, and the one the lookup returns has
\* expired.
ExpiredMatch(p, P, u, secret) ==
    /\ Unused(p, P, u, secret) # {}
    /\ records[P][Newest(Unused(p, P, u, secret))].expires_at <= now

\* C18: for every confirm operation, a secret whose matched record has expired
\* gets the same error message as a secret that matches no record.
C18_ExpiredLooksLikeUnknown ==
    \A p \in Procs : Free(p) =>
        /\ \A u \in Users : \A ce, cn \in CodeInputs :
             /\ (ExpiredMatch(p, EV, u, ce) /\ Carrying(p, EV, u, cn) = {}) =>
                    OTPVerification_response(p, EmailOf(u), ce)
                      = OTPVerification_response(p, EmailOf(u), cn)
             /\ (ExpiredMatch(p, PRO, u, ce) /\ Carrying(p, PRO, u, cn) = {}) =>
                    PasswordResetOTPConfirm_response(p, EmailOf(u), ce, ValidPassword)
                      = PasswordResetOTPConfirm_response(p, EmailOf(u), cn, ValidPassword)
        /\ \A te, tn \in TokenDraws :
             (ExpiredMatch(p, PRT, NoUser, te) /\ Carrying(p, PRT, NoUser, tn) = {}) =>
                PasswordResetConfirm_response(p, te, ValidPassword)
                  = PasswordResetConfirm_response(p, tn, ValidPassword)

\* C19: for the OTP confirm operations, an email of no user gets the same
\* error as an email of an existing user with a code that matches none of that
\* user's records.
C19_UnknownUserLooksLikeWrongCode ==
    \A p \in Procs : Free(p) =>
        \A e \in EmailInputs : \A u \in Users : \A code \in CodeInputs :
            /\ (NoSuchUser(e) /\ Carrying(p, EV, u, code) = {}) =>
                   OTPVerification_response(p, e, code)
                     = OTPVerification_response(p, EmailOf(u), code)
            /\ (NoSuchUser(e) /\ Carrying(p, PRO, u, code) = {}) =>
                   PasswordResetOTPConfirm_response(p, e, code, ValidPassword)
                     = PasswordResetOTPConfirm_response(p, EmailOf(u), code, ValidPassword)

\* C20: a code is accepted by a confirm operation only against a record of
\* that operation's own purpose: a code the user holds only as an
\* EmailVerificationOTP is refused by the password-reset-OTP confirm, and a
\* code held only as a PasswordResetOTP is refused by the email-verification
\* confirm.
C20_NoCrossPurposeAcceptance ==
    \A p \in Procs : Free(p) =>
        \A u \in Users : \A code \in CodeInputs :
            /\ Carrying(p, PRO, u, code) = {} =>
                   PasswordResetOTPConfirm_response(p, EmailOf(u), code, ValidPassword) # "ok"
            /\ Carrying(p, EV, u, code) = {} =>
                   OTPVerification_response(p, EmailOf(u), code) # "ok"

\* A user holds a valid email-verification code and a different valid
\* password-reset code; each is refused by the other purpose's confirm and
\* accepted by its own.
C20_Witness ==
    \E p \in Procs : \E u \in Users : \E c, d \in CodeInputs :
        /\ Free(p)
        /\ Carrying(p, EV, u, c) # {} /\ Carrying(p, PRO, u, c) = {}
        /\ Carrying(p, PRO, u, d) # {} /\ Carrying(p, EV, u, d) = {}
        /\ OTPVerification_response(p, EmailOf(u), c) = "ok"
        /\ PasswordResetOTPConfirm_response(p, EmailOf(u), c, ValidPassword) # "ok"
        /\ PasswordResetOTPConfirm_response(p, EmailOf(u), d, ValidPassword) = "ok"
        /\ OTPVerification_response(p, EmailOf(u), d) # "ok"

\* C21: an OTP confirm that submits user B's email with a code issued only to
\* user A is refused, and no step of such a request changes anything: neither
\* user's password, verification flag or records.
C21_OtherUsersCodeRefused ==
    /\ [](\A p \in Procs : Free(p) =>
            \A A, B \in Users : \A code \in CodeInputs :
                /\ (A # B /\ Carrying(p, EV, A, code) # {} /\ Carrying(p, EV, B, code) = {})
                   => OTPVerification_response(p, EmailOf(B), code)
                        = "Invalid email or verification code."
                /\ (A # B /\ Carrying(p, PRO, A, code) # {} /\ Carrying(p, PRO, B, code) = {})
                   => PasswordResetOTPConfirm_response(p, EmailOf(B), code, ValidPassword)
                        = "Invalid or expired OTP code.")
    /\ [][\A p \in Procs : (Free(p) /\ vars' # vars) =>
             \A A, B \in Users : \A code \in CodeInputs :
                /\ (A # B /\ Carrying(p, EV, A, code) # {} /\ Carrying(p, EV, B, code) = {})
                   => ~OTPVerification_request(p, EmailOf(B), code)
                /\ (A # B /\ Carrying(p, PRO, A, code) # {} /\ Carrying(p, PRO, B, code) = {})
                   => \A pw \in PasswordInputs :
                         ~PasswordResetOTPConfirm_request(p, EmailOf(B), code, pw)]_vars

\* User A holds a valid reset code that user B does not: it is accepted with
\* A's email and refused with B's.
C21_Witness ==
    \E p \in Procs : \E A, B \in Users : \E code \in CodeInputs :
        /\ Free(p) /\ A # B
        /\ Carrying(p, PRO, A, code) # {} /\ Carrying(p, PRO, B, code) = {}
        /\ PasswordResetOTPConfirm_response(p, EmailOf(A), code, ValidPassword) = "ok"
        /\ PasswordResetOTPConfirm_response(p, EmailOf(B), code, ValidPassword) # "ok"
        /\ Carrying(p, PRO, B, CHOOSE d \in CodeInputs : d # code) # {}

\* C22: when several unused records of one user and one OTP purpose carry the
\* submitted code, and the most recently created of them is unexpired, the
\* confirm is accepted (on that record) instead of failing.
C22_NewestOfDuplicatesWins ==
    \A p \in Procs : Free(p) =>
        \A u \in Users : \A code \in CodeInputs :
            /\ (/\ Cardinality(Unused(p, EV, u, code)) > 1
                /\ is_valid(records[EV][Newest(Unused(p, EV, u, code))], now))
               => OTPVerification_response(p, EmailOf(u), code) = "ok"
            /\ (/\ Cardinality(Unused(p, PRO, u, code)) > 1
                /\ is_valid(records[PRO][Newest(Unused(p, PRO, u, code))], now))
               => PasswordResetOTPConfirm_response(p, EmailOf(u), code, ValidPassword) = "ok"

\* C28: every record create_for_user inserts is unused and expires 15 minutes
\* (EmailVerificationOTP, PasswordResetOTP) or 60 minutes (PasswordResetToken)
\* after the clock reading at its creation.
C28_CreatedUnusedWithTTL ==
    [][\A P \in Purposes :
         Len(records'[P]) > Len(records[P]) =>
            LET r == records'[P][Len(records'[P])]
            IN  /\ Len(records'[P]) = Len(records[P]) + 1
                /\ r.is_used = FALSE
                /\ P \in {EV, PRO} => r.expires_at = now + OTP_TTL_MINUTES
                /\ P = PRT => r.expires_at = now + TOKEN_TTL_MINUTES]_vars

\* After the clock has advanced, a code and a token have just been created.
C28_Witness ==
    /\ now > 0
    /\ \E P \in {EV, PRO} : \E i \in Rows(P) :
          ~records[P][i].is_used /\ records[P][i].expires_at = now + OTP_TTL_MINUTES
    /\ \E i \in Rows(PRT) :
          ~records[PRT][i].is_used /\ records[PRT][i].expires_at = now + TOKEN_TTL_MINUTES

RECURSIVE NumericValue(_)
\* The number a sequence of decimal digits denotes.
NumericValue(s) ==
    IF s = <<>> THEN 0 ELSE 10 * NumericValue(SubSeq(s, 1, Len(s) - 1)) + s[Len(s)]

\* C29: for every draw in [0, 999999] generate_code returns exactly six decimal
\* digits whose numeric value is the draw, padded with zeros on the left
\* (42 gives 000042); every stored code is such a string.
C29_SixDigitsOfTheDraw ==
    /\ \A d \in SampleDraws :
          /\ d \in 0..999999
          /\ Len(generate_code(d)) = 6
          /\ \A k \in 1..6 : generate_code(d)[k] \in 0..9
          /\ NumericValue(generate_code(d)) = d
    /\ generate_code(42) = <<0, 0, 0, 0, 4, 2>>
    /\ \A P \in {EV, PRO} : \A i \in Rows(P) :
          /\ Len(records[P][i].secret) = 6
          /\ \A k \in 1..6 : records[P][i].secret[k] \in 0..9
          /\ NumericValue(records[P][i].secret) \in SampleDraws

\* A code that needed five zeros and a code that needed none are stored.
C29_Witness ==
    /\ \E i \in Rows(EV) : records[EV][i].secret = <<0, 0, 0, 0, 0, 9>>
    /\ \E i \in Rows(PRO) : records[PRO][i].secret = <<9, 9, 9, 9, 9, 9>>

\* The task that carries a secret of the given purpose.
TaskFor(P) ==
    CASE P = EV -> "send_otp_email"
      [] P = PRT -> "send_password_reset_email"
      [] P = PRO -> "send_password_reset_otp_email"

C24_EnqueueFailureKeepsRecord ==
    [][\A p \in Procs :
         DelayRaises(p) =>
            /\ call[p].rec \in DOMAIN records'[Purpose(p)]
            /\ records'[Purpose(p)][call[p].rec].secret = call[p].secret
            /\ records'[Purpose(p)][call[p].rec].txn = "committed"
            /\ is_valid(records'[Purpose(p)][call[p].rec], now)]_vars

\* C25: a login with correct credentials for an unverified user is rejected,
\* and when the rejection is returned a new valid EmailVerificationOTP of that
\* user is stored and its notification is in the queue; a login with wrong
\* credentials changes nothing: it creates no OTP and enqueues nothing.
C25_RejectedLoginIssuesOTP ==
    /\ [](\A e \in EmailInputs : \A pw \in CredentialInputs :
            LET u == get_user(e)
            IN  /\ (u # NoUser /\ users[u].password = pw /\ ~users[u].is_email_verified)
                     => EmailTokenObtainPairSerializer_validate(e, pw)
                          = "email_verification_required"
                /\ (u = NoUser \/ users[u].password # pw)
                     => EmailTokenObtainPairSerializer_validate(e, pw)
                          = "No active account found with the given credentials")
    /\ [][\A p \in Procs :
             /\ \A e \in EmailInputs : \A pw \in CredentialInputs : \A draw \in Draws :
                   (/\ EmailTokenObtainPair_request(p, e, pw, draw)
                    /\ RoomFor(p)
                    /\ EmailTokenObtainPairSerializer_validate(e, pw)
                          = "email_verification_required")
                   => /\ Len(records'[EV]) = Len(records[EV]) + 1
                      /\ call'[p].kind = "login" /\ call'[p].user = get_user(e)
                      /\ records'[EV][call'[p].rec].user = get_user(e)
                      /\ is_valid(records'[EV][call'[p].rec], now)
             /\ (call[p].kind = "login" /\ Delay(p))
                   => /\ records'[EV][call[p].rec].txn = "committed"
                      /\ records'[EV][call[p].rec].user = call[p].user
                      /\ is_valid(records'[EV][call[p].rec], now')
                      /\ [task |-> "send_otp_email", user |-> call[p].user,
                          secret |-> records'[EV][call[p].rec].secret] \in outbox'
                      /\ ~users'[call[p].user].is_email_verified
             /\ (Free(p) /\ vars' # vars) =>
                   \A e \in EmailInputs : \A pw \in CredentialInputs : \A draw \in Draws :
                      (get_user(e) = NoUser \/ users[get_user(e)].password # pw)
                         => ~EmailTokenObtainPair_request(p, e, pw, draw)]_vars

\* A login of the registered, unverified first user has been rejected on the
\* verification check and has inserted its code, while an earlier code of that
\* user is stored.
C25_Witness ==
    /\ pc[Worker] = "created" /\ call[Worker].kind = "login"
    /\ users[call[Worker].user] # NoRow
    /\ ~users[call[Worker].user].is_email_verified
    /\ Len(records[EV]) = 2
    /\ records[EV][2].txn = Worker /\ records[EV][2].user = call[Worker].user

\* C26: login returns tokens only for a stored user whose password matches and
\* whose email is verified: never for a user with is_email_verified false.
C26_NoTokensForUnverified ==
    \A e \in EmailInputs : \A pw \in CredentialInputs :
        EmailTokenObtainPairSerializer_validate(e, pw) = "tokens"
           => /\ get_user(e) # NoUser
              /\ users[get_user(e)].is_email_verified
              /\ users[get_user(e)].password = pw

\* The first user has registered and not verified: the right password is
\* refused for that user while the second, verified user is given tokens.
C26_Witness ==
    /\ users["u1"] # NoRow /\ ~users["u1"].is_email_verified
    /\ EmailTokenObtainPairSerializer_validate("u1@x.io", users["u1"].password)
          = "email_verification_required"
    /\ EmailTokenObtainPairSerializer_validate("u2@x.io", users["u2"].password) = "tokens"

\* Codes the resend endpoint created within the last hour for the user whose
\* email gives this key.
ResentWithinWindow(key) ==
    {i \in Rows(EV) :
        /\ get_cache_key(EmailOf(records[EV][i].user)) = key
        /\ records[EV][i].expires_at - OTP_TTL_MINUTES > now - THROTTLE_WINDOW_MINUTES}

\* C27: per normalized email, at most 3 resend requests are admitted within an
\* hour: a further one creates no OTP and sends no email.
C27_AtMostThreeResendsPerHour ==
    \A e \in EmailInputs :
        Cardinality(ResentWithinWindow(get_cache_key(e))) <= THROTTLE_RATE

\* Request p is a password-reset-OTP issuance taking a step.
ResetOTPIssuanceStep(p) ==
    /\ pc'[p] # pc[p]
    /\ call[p].kind = "reset_otp_request" \/ call'[p].kind = "reset_otp_request"

\* The user that issuance is for.
IssuedFor(p) ==
    IF call[p].kind = "reset_otp_request" THEN call[p].user ELSE call'[p].user

\* C32: a password-reset-OTP issuance for user U writes is_used only on U's own
\* PasswordResetOTP records: the PasswordResetOTP records of every other user
\* and all EmailVerificationOTP and PasswordResetToken records are unchanged,
\* and so are the other fields of U's records and the users themselves.
C32_ReissueTouchesOnlyOwnResetOTPs ==
    [][\A p \in Procs : ResetOTPIssuanceStep(p) =>
         /\ users' = users
         /\ \A x \in wr'[p] :
               /\ x.tbl = PRO /\ x.field = "is_used"
               /\ records[PRO][x.key].user = IssuedFor(p)
         /\ \A P \in Purposes : \A i \in Rows(P) :
               /\ i \in DOMAIN records'[P]
               /\ (P # PRO \/ records[P][i].user # IssuedFor(p))
                     => records'[P][i] = records[P][i]
               /\ records'[P][i].user = records[P][i].user
               /\ records'[P][i].secret = records[P][i].secret
               /\ records'[P][i].expires_at = records[P][i].expires_at]_vars

\* A reset OTP has just been inserted for one user while another user holds a
\* stored, unused reset OTP.
C32_Witness ==
    \E p \in Procs : \E i \in Rows(PRO) :
        /\ pc[p] = "created" /\ call[p].kind = "reset_otp_request"
        /\ records[PRO][i].user # call[p].user
        /\ records[PRO][i].txn = "committed"
        /\ ~records[PRO][i].is_used

\* No record of purpose P that request p can see carries the secret (for the
\* OTP purposes: for user u), is unused and is unexpired: the email is unknown,
\* the secret is wrong, or every record it matches is used or expired.
NothingToConfirm(p, P, u, secret) ==
    \A i \in Carrying(p, P, u, secret) :
        View(p, P, i).is_used \/ records[P][i].expires_at <= now

\* C33: no step of a confirm that must fail (unknown email, wrong secret, used
\* record or expired record) changes anything: no user's password or
\* is_email_verified, no record's is_used, nothing else.
C33_FailedConfirmChangesNothing ==
    [][(Free(Worker) /\ vars' # vars) =>
         /\ \A e \in EmailInputs : \A code \in CodeInputs :
               /\ NothingToConfirm(Worker, EV, get_user(Lower(e)), code)
                    => ~OTPVerification_request(Worker, e, code)
               /\ NothingToConfirm(Worker, PRO, get_user(Lower(e)), code)
                    => \A pw \in PasswordInputs :
                          ~PasswordResetOTPConfirm_request(Worker, e, code, pw)
         /\ \A token \in TokenDraws :
               NothingToConfirm(Worker, PRT, NoUser, token)
                  => \A pw \in PasswordInputs :
                        ~PasswordResetConfirm_request(Worker, token, pw)]_vars

\* A request is about to be served while one stored record is used and
\* another is unused and expired: a confirm with either secret must fail.
C33_Witness ==
    /\ Free(Worker)
    /\ \E P, Q \in Purposes : \E i \in Rows(P) : \E j \in Rows(Q) :
          /\ records[P][i].txn = "committed" /\ records[Q][j].txn = "committed"
          /\ records[P][i].is_used /\ records[P][i].expires_at > now
          /\ ~records[Q][j].is_used /\ records[Q][j].expires_at <= now
          /\ NothingToConfirm(Worker, P, records[P][i].user, records[P][i].secret)
          /\ NothingToConfirm(Worker, Q, records[Q][j].user, records[Q][j].secret)

\* C34: a password-reset-OTP confirm whose record was superseded by a reissue
\* after the confirm looked it up (the stored record is used although no
\* confirm has succeeded on it) does not change the user's password.
C34_SupersededNeverAuthorises ==
    [][\A p \in Procs :
         (/\ ConfirmSucceeds(p)
          /\ call[p].kind = "reset_otp_confirm"
          /\ records[PRO][call[p].rec].is_used
          /\ ~records[PRO][call[p].rec].confirmed)
         => users'[call[p].user].password = users[call[p].user].password]_vars

\* C35: every password change by a reset confirm and every change of
\* is_email_verified to true is applied to the owner of the record the confirm
\* matched: a stored record of the confirm's purpose that carried the submitted
\* secret and was unused and unexpired when the confirm looked it up.  No
\* confirm changes any other user.
C35_ChangeOnlyForRecordOwner ==
    /\ [][\A p \in Procs :
             (pc[p] = "idle" /\ pc'[p] = "validated") =>
                LET c == call'[p]
                    P == PurposeOf(c.kind)
                IN  /\ IsConfirm(c.kind)
                    /\ c.rec \in Rows(P)
                    /\ records[P][c.rec].txn = "committed"
                    /\ records[P][c.rec].user = c.user
                    /\ records[P][c.rec].secret = c.secret
                    /\ ~records[P][c.rec].is_used
                    /\ records[P][c.rec].expires_at > now]_vars
    /\ [](\A p \in Procs : \A x \in wr[p] :
            x.tbl = "User" =>
               /\ IsConfirm(call[p].kind)
               /\ x.key = call[p].user
               /\ x.key = records[Purpose(p)][call[p].rec].user
               /\ records[Purpose(p)][call[p].rec].secret = call[p].secret
               /\ call[p].kind = "verify_otp"
                     => (x.field = "is_email_verified" /\ x.val = TRUE)
               /\ call[p].kind # "verify_otp"
                     => (x.field = "password" /\ x.val = call[p].password))
    /\ [][users' # users =>
             \E p \in Procs :
                /\ ConfirmSucceeds(p)
                /\ \A u \in Users : users'[u] # users[u] =>
                      /\ u = records[Purpose(p)][call[p].rec].user
                      /\ records[Purpose(p)][call[p].rec].secret = call[p].secret]_vars

\* The second user's password has been reset and the first user's email
\* verified, each on a record of its own.
C35_Witness ==
    /\ users["u1"].is_email_verified
    /\ users["u2"].password # InitialPassword
    /\ \E i \in Rows(EV) : records[EV][i].user = "u1" /\ records[EV][i].confirmed
    /\ \E P \in {PRO, PRT} : \E i \in Rows(P) :
          records[P][i].user = "u2" /\ records[P][i].confirmed

\* C36: a successful confirm sets is_used on exactly one record, the one it
\* matched: every other record of every purpose, the same user's other
\* outstanding codes and tokens included, is the same after the confirm as
\* before and so keeps its validity.
C36_ConfirmMarksOnlyItsRecord ==
    [][\A p \in Procs : ConfirmSucceeds(p) =>
         /\ {x \in wr[p] : x.tbl # "User"}
               = {[tbl |-> Purpose(p), key |-> call[p].rec,
                   field |-> "is_used", val |-> TRUE]}
         /\ records'[Purpose(p)][call[p].rec].is_used
         /\ records'[Purpose(p)][call[p].rec].user = records[Purpose(p)][call[p].rec].user
         /\ records'[Purpose(p)][call[p].rec].secret
               = records[Purpose(p)][call[p].rec].secret
         /\ records'[Purpose(p)][call[p].rec].expires_at
               = records[Purpose(p)][call[p].rec].expires_at
         /\ now' = now
         /\ \A P \in Purposes : \A i \in Rows(P) :
               (P # Purpose(p) \/ i # call[p].rec)
                  => /\ i \in DOMAIN records'[P]
                     /\ records'[P][i] = records[P][i]
                     /\ is_valid(records'[P][i], now') = is_valid(records[P][i], now)]_vars

\* A confirm has succeeded on one record of a user while another record of
\* that user is still stored, unused and unexpired.
C36_Witness ==
    \E P, Q \in Purposes : \E i \in Rows(P) : \E j \in Rows(Q) :
        /\ <<P, i>> # <<Q, j>>
        /\ records[P][i].confirmed /\ records[P][i].is_used
        /\ records[Q][j].user = records[P][i].user
        /\ records[Q][j].txn = "committed"
        /\ is_valid(records[Q][j], now)
        /\ \A p \in Procs : Free(p)

\* C37: a record that is not valid (consumed, expired or superseded) is not
\* valid at any later moment: no step makes an invalid record valid, removes a
\* record, resets is_used or changes expires_at, and the clock never goes back.
C37_InvalidIsTerminal ==
    [][/\ now' >= now
       /\ \A P \in Purposes : \A i \in Rows(P) :
             /\ i \in DOMAIN records'[P]
             /\ records'[P][i].expires_at = records[P][i].expires_at
             /\ records[P][i].is_used => records'[P][i].is_used
             /\ ~is_valid(records[P][i], now) => ~is_valid(records'[P][i], now')]_vars

\* Later on the clock, a superseded reset OTP (used, never confirmed) and an
\* expired, never used record are stored.
C37_Witness ==
    /\ now > 0
    /\ \E i \in Rows(PRO) :
          records[PRO][i].is_used /\ ~records[PRO][i].confirmed
    /\ \E P \in Purposes : \E j \in Rows(P) :
          ~records[P][j].is_used /\ records[P][j].expires_at <= now

\* C38: once a user's is_email_verified is true, no registration, issuance,
\* confirm or login sets it back to false: no step does, and no request holds
\* a pending write of false for a verified user.
C38_VerifiedStaysVerified ==
    /\ [][\A u \in Users :
             users[u].is_email_verified => users'[u].is_email_verified]_vars
    /\ [](\A p \in Procs : \A x \in wr[p] :
            (x.tbl = "User" /\ x.field = "is_email_verified" /\ x.val = FALSE)
               => ~users[x.key].is_email_verified)

\* The first user has registered, verified the email and then reset the
\* password, and is still verified.
C38_Witness ==
    /\ users["u1"].is_email_verified
    /\ \E i \in Rows(EV) : records[EV][i].user = "u1" /\ records[EV][i].confirmed
    /\ \E P \in {PRO, PRT} : \E i \in Rows(P) :
          records[P][i].user = "u1" /\ records[P][i].confirmed

\* Request p's mark_as_used() call returns in this step.
MarkAsUsedReturns(p) == pc[p] = "effected" /\ pc'[p] = "marked"

C39_EveryRecordExpiresForGood ==
    \A P \in Purposes : \A i \in 1..MaxRecords :
        (i \in Rows(P)) ~> [](i \in Rows(P) /\ ~is_valid(records[P][i], now))

\* A token issued at the last issuing reading was never marked used and is
\* invalid once the clock has passed its expiry; a reset OTP beside it was
\* superseded or marked used.
C39_Witness ==
    /\ \E i \in Rows(PRT) :
          /\ ~records[PRT][i].is_used
          /\ records[PRT][i].expires_at = LastIssue + TOKEN_TTL_MINUTES
          /\ ~is_valid(records[PRT][i], now)
    /\ \E i \in Rows(PRO) : records[PRO][i].is_used

\* C31: the projects API answers each authenticated user from that user's own
\* projects only: a list returns none but the user's own projects, and a retrieve,
\* update or delete aimed at a stored project of another owner is answered
\* not-found, and no request removes or changes a project of another owner.
C31_OwnerScopedProjects ==
    [][response' # response =>
         /\ response'.op = "list"
               => response'.results
                     \subseteq {r.uuid : r \in {x \in projects : x.owner = response'.user}}
         /\ (/\ response'.op \in {"retrieve", "update", "destroy"}
             /\ \E r \in projects :
                   r.uuid = response'.uuid /\ r.owner # response'.user)
               => response'.status = "404" /\ projects' = projects
         /\ \A r \in projects : r.owner # response'.user => r \in projects']_vars

====
